---- MODULE Spec2Model ----
(***************************************************************************)
(* Model of jitsdp: the event pipeline and train/test loop of              *)
(* baseline.run (src/jitsdp/baseline.py) and the ORB wrapper around the    *)
(* trainable classifiers (src/jitsdp/pipeline.py).                         *)
(*                                                                         *)
(* Spec       the pipeline of baseline.run on a stream of commits          *)
(* SpecSteps  calculate_steps and the train/test loop on arbitrary         *)
(*            non-decreasing timestamp axes                                *)
(* SpecORB    ORB.train around PyTorch.train / Scikit.train                *)
(* SpecMetrics  prequential_recalls on a prediction stream                 *)
(* SpecTuning   create_models_configs of src/jitsdp/tuning.py              *)
(***************************************************************************)
EXTENDS Integers, Sequences, FiniteSets, TLC

\* ---------------------------------------------------------------- bounds
MaxCommits == 2
MaxLen == 3
MaxTime == 3
MaxIterations == 2
MaxWindow == 2
MaxCalls == 2
MaxRows == 6
MaxIndex == 3

\* extract_events: seconds_by_day = 24 * 60 * 60
seconds_by_day == 86400

\* arrival timestamps of the commits (seconds): same day, next second, next day
Timestamps == {0, 1, seconds_by_day}
\* timestamp_fix - timestamp of a bug commit
FixDelays == {0, 1, seconds_by_day}
\* distinct feature vectors (the FEATURES columns of a row)
Features == {1, 2}
\* --orb-waiting-time (days) and --orb-n
WaitingTimes == {0, 1}
OrbNs == {0, 1}

VARIABLES
    pc,            \* position in run
    config,        \* orb_waiting_time, orb_n, noise, order
    df_test,       \* the commits, in arrival order
    df_events,     \* result of extract_events
    df_filtered,   \* df_events after remove_noise (or untouched when --noise 1)
    df_train,      \* the train stream the loop consumes
    bug_pool,      \* bug events left in balance_events' queue
    test_steps,    \* step counts still to be iterated
    train_steps,   \* list of step counts, popped from the front
    train_first,
    current_test,
    n_trained,     \* number of rows of df_train already passed to model.train
    seen,          \* seen[j]: n_trained when commit j of df_test was predicted
    orb_pc,        \* position in ORB.train
    th,            \* ORB.th = 1 - normal_proportion
    clf,           \* ORB.classifier: the threshold, the model and what it has fitted
    y,             \* df_train[target] of the call
    window,        \* len(df_ma) of the call
    prediction,    \* classifier.predict(df_ma)['prediction'] of the classifier as it is
    ma,            \* the local ma of ORB.train
    it,            \* the loop variable i of ORB.train
    obf,           \* [obf0, obf1] of the iteration
    passes,        \* epochs / update passes of the last classifier.train
    epochs,        \* epochs / update passes of the call of ORB.train so far
    warned,        \* the last classifier.train logged the ValueError and returned
    exc,           \* where the exception that left ORB.train was raised, if any
    calls,         \* calls of ORB.train that returned
    ma_before,     \* ma when the iteration began
    clf_before,    \* clf when the iteration began
    met_pc,        \* position in prequential_recalls
    results,       \* the rows of the prediction stream read so far
    counts,        \* counts[c], hits[c]: the faded sums of class c, as
    hits,          \*   numerators over the common denominator scale[c]
    scale,
    recalls,       \* the rows <<r0, r1>> of the output
    tun_pc,        \* position in create_models_configs
    args,          \* --start and --end of tuning.py
    models_configs \* the dict create_models_configs builds, key by key

run_vars == <<pc, config, df_test, df_events, df_filtered, df_train, bug_pool,
              test_steps, train_steps, train_first, current_test, n_trained, seen>>

orb_vars == <<orb_pc, th, clf, y, window, prediction, ma, it, obf, passes, epochs,
              warned, exc, calls, ma_before, clf_before>>

met_vars == <<met_pc, results, counts, hits, scale, recalls>>

tun_vars == <<tun_pc, args, models_configs>>

vars == <<run_vars, orb_vars, met_vars, tun_vars>>

\* ---------------------------------------------------------------- helpers
int(b) == IF b THEN 1 ELSE 0

Min2(a, b) == IF a < b THEN a ELSE b
Max2(a, b) == IF a > b THEN a ELSE b

\* boolean-mask indexing s[mask]: the rows of s whose position the mask
\* holds, in order
Mask(s, mask) ==
    LET F[i \in 0..Len(s)] ==
            IF i = 0 THEN <<>>
            ELSE IF mask[i] THEN Append(F[i - 1], s[i]) ELSE F[i - 1]
    IN F[Len(s)]

Sum(s) ==
    LET F[i \in 0..Len(s)] == IF i = 0 THEN 0 ELSE F[i - 1] + s[i]
    IN F[Len(s)]

Column(df, c) == [i \in 1..Len(df) |-> df[i][c]]

NonDecreasing(s) == \A i \in 1..Len(s) - 1 : s[i] <= s[i + 1]

\* ---------------------------------------------------------------- calculate_steps
\* Series.drop_duplicates(): the first occurrence of each value is kept
drop_duplicates(s) ==
    Mask(s, [i \in 1..Len(s) |-> \A j \in 1..i - 1 : s[j] # s[i]])

\* numpy searchsorted on increasing bins
searchsorted(bins, x, side) ==
    IF side = "left"
    THEN Cardinality({i \in 1..Len(bins) : bins[i] < x})
    ELSE Cardinality({i \in 1..Len(bins) : bins[i] <= x})

\* fault: the buckets are closed on the right whatever right says
cut_right_closed(x, bins, right) ==
    LET id == searchsorted(bins, x, "left")
    IN IF x = bins[1] THEN 1 ELSE id

\* pd.cut(x, bins, right, include_lowest=True): the 1-based bucket of x,
\* 0 or Len(bins) when x falls outside of every bucket (NaN)
cut(x, bins, right) ==
    LET id == searchsorted(bins, x, IF right THEN "left" ELSE "right")
    IN IF x = bins[1] THEN 1 ELSE id

\* the outer edges of min_max: the axis' own extremes, extended by one on the
\* open side of the buckets
min_edge(data, right) == data[1] - int(right)

\* fault: the upper edge is the last item itself, not extended by one
max_edge_unextended(data, right) == data[Len(data)]

max_edge(data, right) == data[Len(data)] + int(~right)

calculate_steps(data, bins, right) ==
    LET lo == min_edge(data, right)
        hi == max_edge(data, right)
        mn == Min2(lo, hi)
        mx == Max2(lo, hi)
        internal_bins == SelectSeq(bins, LAMBDA b : mn < b /\ b < mx)
        full_bins == drop_duplicates(<<lo>> \o internal_bins \o <<hi>>)
        ids == [k \in 1..Len(data) |-> cut(data[k], full_bins, right)]
        value_counts == [i \in 1..Len(full_bins) - 1 |->
                            Cardinality({k \in 1..Len(data) : ids[k] = i})]
    IN SelectSeq(value_counts, LAMBDA c : c > 0)

\* ---------------------------------------------------------------- extract_events
\* fault: the sort is descending
sort_values_descending(df, c) ==
    LET Insert(sorted, row) ==
            LET k == Cardinality({i \in 1..Len(sorted) : sorted[i][c] >= row[c]})
            IN SubSeq(sorted, 1, k) \o <<row>> \o SubSeq(sorted, k + 1, Len(sorted))
        F[i \in 0..Len(df)] == IF i = 0 THEN <<>> ELSE Insert(F[i - 1], df[i])
    IN F[Len(df)]

\* fault: a sort that is not stable, a row goes before the rows of its key
sort_values_unstable(df, c) ==
    LET Insert(sorted, row) ==
            LET k == Cardinality({i \in 1..Len(sorted) : sorted[i][c] < row[c]})
            IN SubSeq(sorted, 1, k) \o <<row>> \o SubSeq(sorted, k + 1, Len(sorted))
        F[i \in 0..Len(df)] == IF i = 0 THEN <<>> ELSE Insert(F[i - 1], df[i])
    IN F[Len(df)]

\* DataFrame.sort_values(kind='mergesort'): stable, rows with equal keys keep
\* their relative order
sort_values(df, c) ==
    LET Insert(sorted, row) ==
            LET k == Cardinality({i \in 1..Len(sorted) : sorted[i][c] <= row[c]})
            IN SubSeq(sorted, 1, k) \o <<row>> \o SubSeq(sorted, k + 1, Len(sorted))
        F[i \in 0..Len(df)] == IF i = 0 THEN <<>> ELSE Insert(F[i - 1], df[i])
    IN F[Len(df)]

\* an event row: timestamp_event, the FEATURES columns and target; src is the
\* position in df_commit of the commit the row was copied from
Event(commit, timestamp_event, target) ==
    [src |-> commit.id, timestamp_event |-> timestamp_event,
     feat |-> commit.feat, target |-> target]

\* fault: the latency is subtracted from the arrival timestamp
cleaned_timestamp_earlier(timestamp, verification_latency) ==
    timestamp - verification_latency

\* df['timestamp'] + verification_latency
cleaned_timestamp(timestamp, verification_latency) ==
    timestamp + verification_latency

\* fault: > in place of >=
waited_longer(row, verification_latency) ==
    row.timestamp_fix - row.timestamp > verification_latency

\* waited_time >= verification_latency
waited_time_reached(row, verification_latency) ==
    row.timestamp_fix - row.timestamp >= verification_latency

\* timestamp_fix holds whole seconds, which astype(int) leaves as they are
extract_events(df_commit, waiting_time) ==
    LET verification_latency == waiting_time * seconds_by_day
        df_clean == SelectSeq(df_commit, LAMBDA r : r.target = 0)
        df_cleaned == [i \in 1..Len(df_clean) |->
            Event(df_clean[i],
                  cleaned_timestamp(df_clean[i].timestamp, verification_latency), 0)]
        df_bug == SelectSeq(df_commit, LAMBDA r : r.target = 1)
        df_bugged == [i \in 1..Len(df_bug) |->
            Event(df_bug[i], df_bug[i].timestamp_fix, 1)]
        waited == SelectSeq(df_bug,
            LAMBDA r : waited_time_reached(r, verification_latency))
        df_bug_cleaned == [i \in 1..Len(waited) |->
            Event(waited[i],
                  cleaned_timestamp(waited[i].timestamp, verification_latency), 0)]
    IN sort_values(df_cleaned \o df_bugged \o df_bug_cleaned, "timestamp_event")

\* ---------------------------------------------------------------- remove_noise
\* groupby(FEATURES)['target'].cumsum(): the targets of the group summed up to
\* and including row i
cumsum(df, i) ==
    Cardinality({j \in 1..i : df[j].feat = df[i].feat /\ df[j].target = 1})

\* fault: the count of the rows of the group includes row i
cumcount_inclusive(df, i) ==
    Cardinality({j \in 1..i : df[j].feat = df[i].feat})

\* groupby(FEATURES)['target'].cumcount(): the rows of the group before row i
cumcount(df, i) ==
    Cardinality({j \in 1..i - 1 : df[j].feat = df[i].feat})

\* fault: the clean events are counted since the last bug event of the group
noise_since_last_bug(df, orb_n, i) ==
    LET bugs == {j \in 1..i - 1 : df[j].feat = df[i].feat /\ df[j].target = 1}
        last == IF bugs = {} THEN 0 ELSE CHOOSE j \in bugs : \A k \in bugs : k <= j
        clean == {j \in last + 1..i - 1 :
                     df[j].feat = df[i].feat /\ df[j].target = 0}
    IN  (Cardinality(clean) - 1 >= orb_n) /\ df[i].target = 1

noise(df, orb_n, i) ==
    (cumcount(df, i) - cumsum(df, i) >= orb_n) /\ df[i].target = 1

\* fault: the mask is not negated, the noise is what is kept
remove_noise_inverted(df, orb_n) ==
    Mask(df, [i \in 1..Len(df) |-> noise(df, orb_n, i)])

remove_noise(df, orb_n) ==
    Mask(df, [i \in 1..Len(df) |-> ~noise(df, orb_n, i)])

\* ---------------------------------------------------------------- balance_events
\* fault: list.pop() takes the last item whatever the position asked for
pop_last(list, k) ==
    [item |-> list[Len(list)], list |-> SubSeq(list, 1, Len(list) - 1)]

\* list.pop(k), k a 0-based position: the item taken and the list left
pop(list, k) ==
    [item |-> list[k + 1],
     list |-> SubSeq(list, 1, k) \o SubSeq(list, k + 2, Len(list))]

\* fault: the bug event keeps the timestamp_event it was queued with
replace_nothing(bug, row) == bug

\* bug._replace(timestamp_event=row.timestamp_event)
replace(bug, row) == [bug EXCEPT !.timestamp_event = row.timestamp_event]

\* the state of the loop of balance_events after the first i rows
balance_loop(df) ==
    LET F[i \in 0..Len(df)] ==
            IF i = 0 THEN [bug_pool |-> <<>>, df_balanced |-> <<>>]
            ELSE LET st == F[i - 1]
                     row == df[i]
                     pool == IF row.target = 1
                             THEN Append(st.bug_pool, row) ELSE st.bug_pool
                 IN IF row.target = 0
                    THEN IF Len(pool) > 0
                         THEN [bug_pool |-> pop(pool, 0).list,
                               df_balanced |-> st.df_balanced \o
                                   <<row, replace(pop(pool, 0).item, row)>>]
                         ELSE [bug_pool |-> pool,
                               df_balanced |-> Append(st.df_balanced, row)]
                    ELSE [bug_pool |-> pool, df_balanced |-> st.df_balanced]
    IN F[Len(df)]

balance_events(df) == balance_loop(df).df_balanced

\* ---------------------------------------------------------------- floats
\* a float that is the ratio of two integers, den > 0; 0/0 is NaN
Rat(n, d) == [num |-> n, den |-> d]

NaN == Rat(0, 0)

IsNaN(a) == a.den = 0

\* the comparisons of floats: False when a side is NaN
Gt(a, b) == ~IsNaN(a) /\ ~IsNaN(b) /\ a.num * b.den > b.num * a.den

Lt(a, b) == ~IsNaN(a) /\ ~IsNaN(b) /\ a.num * b.den < b.num * a.den

Eq(a, b) == ~IsNaN(a) /\ ~IsNaN(b) /\ a.num * b.den = b.num * a.den

\* ---------------------------------------------------------------- ORB
\* ORB.__init__: self.m = 1.5, self.l0 = 10, self.l1 = 12
m == Rat(3, 2)

l0 == 10

l1 == 12

\* ma = .4 at the head of ORB.train
ma_initial == Rat(2, 5)

\* config['normal_proportion']: a proportion, its two ends included
NormalProportions == {Rat(0, 1), Rat(1, 2), Rat(3, 5), Rat(3, 4), Rat(1, 1)}

\* self.th = 1 - normal_proportion
threshold_of(normal_proportion) ==
    Rat(normal_proportion.den - normal_proportion.num, normal_proportion.den)

\* a factor that was left at 1
One == [curve |-> "one"]

\* obf0 = ((m ** ma - m ** th) * l0) / (m - m ** th) + 1, evaluated where
\* ma > th: m > 1 and l0 > 0 make it greater than 1
obf0_curve(a, t) == [curve |-> "obf0", m |-> m, l |-> l0, ma |-> a, th |-> t]

\* obf1 = (((m ** (th - ma) - 1) * l1) / (m ** th - 1)) + 1, evaluated where
\* ma < th: greater than 1
obf1_curve(a, t) == [curve |-> "obf1", m |-> m, l |-> l1, ma |-> a, th |-> t]

\* the denominator of obf0, m - m ** th, is zero: m = 1 or th = 1
obf0_denominator_zero(t) == Eq(m, Rat(1, 1)) \/ Eq(t, Rat(1, 1))

\* the denominator of obf1, m ** th - 1, is zero: m = 1 or th = 0
obf1_denominator_zero(t) == Eq(m, Rat(1, 1)) \/ Eq(t, Rat(0, 1))

\* the division of the branch taken raises ZeroDivisionError
divides_by_zero(a, t) ==
    \/ Gt(a, t) /\ obf0_denominator_zero(t)
    \/ ~Gt(a, t) /\ Lt(a, t) /\ obf1_denominator_zero(t)

\* fault: the two comparisons are exchanged, the class that is already
\* predicted too often is the one that is biased
weights_exchanged(a, t) ==
    IF Lt(a, t) THEN <<obf0_curve(a, t), One>>
    ELSE IF Gt(a, t) THEN <<One, obf1_curve(a, t)>>
    ELSE <<One, One>>

\* new_kwargs['weights'] = [obf0, obf1]
weights(a, t) ==
    IF Gt(a, t) THEN <<obf0_curve(a, t), One>>
    ELSE IF Lt(a, t) THEN <<One, obf1_curve(a, t)>>
    ELSE <<One, One>>

\* fault: the sum of the predictions in place of their mean
mean_as_sum(column) == Rat(Sum(column), 1)

\* Series.mean(): NaN on an empty column
mean(column) == Rat(Sum(column), Len(column))

\* create_pipeline: the model and the threshold wrapped around it
Models == {"PyTorch", "NaiveBayes", "RandomForest", "LogisticRegression",
           "Ensemble"}

Thresholds == {"ScoreFixed", "RateFixed", "RateFixedTrain"}

\* create_mlp_model and create_lr_model run a StandardScaler step, the other
\* models have steps = []
has_steps(c) == c.model \in {"PyTorch", "LogisticRegression"}

\* predict_proba computes its probabilities from the fitted model: PyTorch
\* when self.trained, Scikit when the steps or the estimator are fitted;
\* it returns zeros otherwise
predicts(c) ==
    IF c.model = "PyTorch" THEN c.trained ELSE c.fitted \/ c.steps_fitted

\* np.unique(y)
unique(column) == {column[k] : k \in 1..Len(column)}

\* fault: the steps are fitted before the classes are counted
prepare_dataloaders_fit_first(c, column) ==
    [raised |-> IF Cardinality(unique(column)) # 2 THEN "ValueError" ELSE "none",
     steps_fitted |-> c.steps_fitted \/ has_steps(c)]

\* _prepare_dataloaders: ValueError unless y holds two classes, then
\* _steps_fit_transform
prepare_dataloaders(c, column) ==
    IF Cardinality(unique(column)) # 2
    THEN [raised |-> "ValueError", steps_fitted |-> c.steps_fitted]
    ELSE [raised |-> "none", steps_fitted |-> c.steps_fitted \/ has_steps(c)]

\* except ValueError as e: logger.warning(e); return
handles(exception) == exception = "ValueError"

\* the columns of 0/1 of a given length
Binary(n) == [1..n -> {0, 1}]

\* df_train[target] of a call: no row, one row or two rows
TargetColumns == Binary(0) \cup Binary(1) \cup Binary(2)

\* the train loop of baseline.run does not construct this ORB
OrbNotConstructed ==
    /\ orb_pc = "none"
    /\ th = ma_initial
    /\ clf = [model |-> "none"]
    /\ y = <<>>
    /\ window = 0
    /\ prediction = <<>>
    /\ ma = ma_initial
    /\ it = 0
    /\ obf = <<One, One>>
    /\ passes = 0
    /\ epochs = 0
    /\ warned = FALSE
    /\ exc = "none"
    /\ calls = 0
    /\ ma_before = ma_initial
    /\ clf_before = [model |-> "none"]

\* ---------------------------------------------------------------- metrics
\* the classes of target
Classes == {0, 1}

\* fault: an undefined prediction is read as class 0
None_as_class_0 == 1 - 1

\* a prediction that is undefined (None in the frame): equal to no class
None == 0 - 1

\* a row of the prediction stream: target and prediction
Rows == [target : Classes, prediction : Classes \cup {None}]

\* test_prequential_recalls: fading_factor = .9
fading_factor == Rat(9, 10)

\* test_prequential_recalls: the columns target and prediction of results
test_results ==
    <<[target |-> 0, prediction |-> None], [target |-> 1, prediction |-> 0],
      [target |-> 0, prediction |-> 0],    [target |-> 0, prediction |-> 0],
      [target |-> 1, prediction |-> 1],    [target |-> 1, prediction |-> 1]>>

\* test_prequential_recalls: the columns r0 and r1 of expected, in units of 1e-9
expected_r0 == <<0, 0, 526315789, 701107011, 701107011, 701107011>>

expected_r1 == <<0, 0, 0, 0, 526315789, 701107011>>

\* 1{correct and target = c}
hit(row, c) == int(row.target = c /\ row.prediction = c)

\* 1{target = c}
occurrence(row, c) == int(row.target = c)

\* x(i) = indicator + fading_factor * x(i - 1), x(i - 1) = num / den: the
\* numerator of x(i) over the denominator fading_factor.den * den
faded(indicator, num, den) ==
    indicator * fading_factor.den * den + fading_factor.num * num

\* recall_c(i) = weighted_hits(i) / weighted_total(i), 0 if the denominator is 0
recall(weighted_hits, weighted_total) ==
    IF weighted_total = 0 THEN Rat(0, 1) ELSE Rat(weighted_hits, weighted_total)

\* floor(a * 1e9) of a float a of [0, 1], digit by digit
nano(a) ==
    LET F[k \in 0..9] ==
            IF k = 0 THEN [q |-> a.num \div a.den, r |-> a.num % a.den]
            ELSE [q |-> F[k - 1].q * 10 + (F[k - 1].r * 10) \div a.den,
                  r |-> (F[k - 1].r * 10) % a.den]
    IN F[9].q

\* assert_frame_equal: equal within 1e-5
almost_equal(a, expected) ==
    LET d == nano(a) - expected
    IN -10000 <= d /\ d <= 10000

\* no prediction stream is being measured
MetricsNotStarted ==
    /\ met_pc = "none"
    /\ results = <<>>
    /\ counts = [c \in Classes |-> 0]
    /\ hits = [c \in Classes |-> 0]
    /\ scale = [c \in Classes |-> 1]
    /\ recalls = <<>>

\* ---------------------------------------------------------------- tuning
\* create_models_configs: the keys of models_configs, in the order of the dict
\* literal; each key names its configuration space
ConfigSpaces == <<"hts", "ihf", "lr", "mlp", "nb", "irf">>

\* the values of --start and --end (type=int, required)
Indices == 0..MaxIndex

\* config_space_sampler.sample(config_space, rng=rng) on a RandomState(seed=0)
\* that has served i samples before: the configuration at index i of the
\* seeded sequence of config_space
sample(config_space, i) == [config_space |-> config_space, index |-> i]

\* the list slice s[lo:hi] for 0 <= lo, 0 <= hi (indices counted from 0)
slice(s, lo, hi) == SubSeq(s, lo + 1, Min2(hi, Len(s)))

\* config_space_to_configs: range(end - start) samples are drawn from a fresh
\* RandomState(seed=0), then the list of them is sliced [start:end]
config_space_to_configs(config_space, start, end) ==
    LET configs == [i \in 1..Max2(end - start, 0) |-> sample(config_space, i - 1)]
    IN  slice(configs, start, end)

\* tuning.py is not generating
TuningNotStarted ==
    /\ tun_pc = "none"
    /\ args = [start |-> 0, end |-> 0]
    /\ models_configs = <<>>

\* ---------------------------------------------------------------- run
\* a row of make_stream(dataset); timestamp_fix is read for target = 1 only
Commit(id, timestamp, feat, target, timestamp_fix) ==
    [id |-> id, timestamp |-> timestamp, feat |-> feat, target |-> target,
     timestamp_fix |-> timestamp_fix]

\* what a row can hold: a clean commit, or a bug commit fixed FixDelays later
CommitData ==
    {[timestamp |-> t, feat |-> f, target |-> 0, timestamp_fix |-> 0] :
        t \in Timestamps, f \in Features}
    \cup
    {[timestamp |-> t, feat |-> f, target |-> 1, timestamp_fix |-> t + d] :
        t \in Timestamps, f \in Features, d \in FixDelays}

\* the streams of up to MaxCommits commits ordered by arrival: df_commit[:end],
\* of no row when end is 0
CommitStreams ==
    UNION {
        {[i \in 1..n |-> Commit(i, rows[i].timestamp, rows[i].feat,
                                rows[i].target, rows[i].timestamp_fix)] :
            rows \in {r \in [1..n -> CommitData] :
                        \A i \in 1..n - 1 : r[i].timestamp <= r[i + 1].timestamp}}
        : n \in 0..MaxCommits}

Configs ==
    [orb_waiting_time : WaitingTimes, orb_n : OrbNs,
     noise : BOOLEAN, order : BOOLEAN]

\* fault: <= in place of <
decide_train_first_on_tie(test, train) == Len(test) <= Len(train)

\* fault: the loop always trains before it tests
decide_train_first_always(test, train) == TRUE

\* train_first = len(test_steps) < len(train_steps)
decide_train_first(test, train) == Len(test) < Len(train)

Init ==
    /\ pc = "extract"
    /\ config \in Configs
    /\ df_test \in CommitStreams
    /\ df_events = <<>>
    /\ df_filtered = <<>>
    /\ df_train = <<>>
    /\ bug_pool = <<>>
    /\ test_steps = <<>>
    /\ train_steps = <<>>
    /\ train_first = FALSE
    /\ current_test = 0
    /\ n_trained = 0
    /\ seen = <<>>
    /\ OrbNotConstructed
    /\ MetricsNotStarted
    /\ TuningNotStarted

\* df_train = extract_events(df_train, config['orb_waiting_time'])
ExtractEvents ==
    /\ pc = "extract"
    /\ df_events' = extract_events(df_test, config.orb_waiting_time)
    /\ pc' = "noise"
    /\ UNCHANGED <<config, df_test, df_filtered, df_train, bug_pool, test_steps,
                   train_steps, train_first, current_test, n_trained, seen>>
    /\ UNCHANGED <<orb_vars, met_vars, tun_vars>>

\* if not config['noise']: df_train = remove_noise(df_train, config['orb_n'])
RemoveNoise ==
    /\ pc = "noise"
    /\ df_filtered' = IF ~config.noise
                      THEN remove_noise(df_events, config.orb_n)
                      ELSE df_events
    /\ pc' = "balance"
    /\ UNCHANGED <<config, df_test, df_events, df_train, bug_pool, test_steps,
                   train_steps, train_first, current_test, n_trained, seen>>
    /\ UNCHANGED <<orb_vars, met_vars, tun_vars>>

\* if not config['order']: df_train = balance_events(df_train)
BalanceEvents ==
    /\ pc = "balance"
    /\ df_train' = IF ~config.order
                   THEN balance_events(df_filtered)
                   ELSE df_filtered
    /\ bug_pool' = IF ~config.order
                   THEN balance_loop(df_filtered).bug_pool
                   ELSE <<>>
    /\ pc' = "steps"
    /\ UNCHANGED <<config, df_test, df_events, df_filtered, test_steps,
                   train_steps, train_first, current_test, n_trained, seen>>
    /\ UNCHANGED <<orb_vars, met_vars, tun_vars>>

\* the two calls of calculate_steps and the decision of train_first. A
\* df_balanced built from no row has no timestamp_event column (KeyError), and
\* on an axis of no item full_bins is empty and pd.cut subscripts bins[0]
\* (IndexError)
CalculateSteps ==
    /\ pc = "steps"
    /\ IF Len(df_train) = 0 \/ Len(df_test) = 0
       THEN /\ pc' = "raised"
            /\ UNCHANGED <<test_steps, train_steps, train_first>>
       ELSE LET test == calculate_steps(Column(df_test, "timestamp"),
                            Column(df_train, "timestamp_event"), FALSE)
                train == calculate_steps(Column(df_train, "timestamp_event"),
                            Column(df_test, "timestamp"), TRUE)
            IN /\ test_steps' = test
               /\ train_steps' = train
               /\ train_first' = decide_train_first(test, train)
               /\ pc' = "loop"
    /\ UNCHANGED <<config, df_test, df_events, df_filtered, df_train, bug_pool,
                   current_test, n_trained, seen>>
    /\ UNCHANGED <<orb_vars, met_vars, tun_vars>>

\* one iteration of "for test_index, test_step in test_steps.items()": the
\* train step (or the first-iteration skip), then the test step
LoopIteration ==
    /\ pc = "loop"
    /\ test_steps # <<>>
    /\ IF train_first /\ train_steps = <<>>
       THEN \* train_steps.pop(0) of an empty list: IndexError
            /\ pc' = "raised"
            /\ UNCHANGED <<test_steps, train_steps, train_first, current_test,
                           n_trained, seen>>
       ELSE LET test_step == Head(test_steps)
                trained == IF train_first
                           THEN Min2(n_trained + pop(train_steps, 0).item,
                                     Len(df_train))
                           ELSE n_trained
            IN /\ train_steps' = IF train_first
                                 THEN pop(train_steps, 0).list ELSE train_steps
               /\ train_first' = TRUE
               /\ n_trained' = trained
               /\ seen' = seen \o [k \in 1..test_step |-> trained]
               /\ current_test' = current_test + test_step
               /\ test_steps' = Tail(test_steps)
               /\ pc' = "loop"
    /\ UNCHANGED <<config, df_test, df_events, df_filtered, df_train, bug_pool>>
    /\ UNCHANGED <<orb_vars, met_vars, tun_vars>>

\* the loop is over: the predictions go to the metrics
Finish ==
    /\ pc = "loop"
    /\ test_steps = <<>>
    /\ pc' = "done"
    /\ UNCHANGED <<config, df_test, df_events, df_filtered, df_train, bug_pool,
                   test_steps, train_steps, train_first, current_test,
                   n_trained, seen>>
    /\ UNCHANGED <<orb_vars, met_vars, tun_vars>>

Next ==
    \/ ExtractEvents
    \/ RemoveNoise
    \/ BalanceEvents
    \/ CalculateSteps
    \/ LoopIteration
    \/ Finish

Spec == Init /\ [][Next]_vars

\* ---------------------------------------------------------------- SpecSteps
\* calculate_steps and the loop of run on any two non-decreasing axes: a test
\* stream and a train stream of which only the timestamps matter
AxisSeqs ==
    UNION {{a \in [1..n -> 0..MaxTime] : NonDecreasing(a)} : n \in 0..MaxLen}

InitSteps ==
    /\ pc = "steps"
    /\ config = [orb_waiting_time |-> 0, orb_n |-> 0,
                 noise |-> TRUE, order |-> TRUE]
    /\ \E a \in AxisSeqs :
           df_test = [i \in 1..Len(a) |-> Commit(i, a[i], 1, 0, 0)]
    /\ \E a \in AxisSeqs :
           df_train = [i \in 1..Len(a) |->
                          [src |-> 0, timestamp_event |-> a[i],
                           feat |-> 1, target |-> 0]]
    /\ df_events = <<>>
    /\ df_filtered = <<>>
    /\ bug_pool = <<>>
    /\ test_steps = <<>>
    /\ train_steps = <<>>
    /\ train_first = FALSE
    /\ current_test = 0
    /\ n_trained = 0
    /\ seen = <<>>
    /\ OrbNotConstructed
    /\ MetricsNotStarted
    /\ TuningNotStarted

NextSteps ==
    \/ CalculateSteps
    \/ LoopIteration
    \/ Finish

SpecSteps == InitSteps /\ [][NextSteps]_vars

\* ---------------------------------------------------------------- SpecORB
\* no run of baseline.run: the classifiers of pipeline.py are driven alone
RunNotStarted ==
    /\ pc = "none"
    /\ config = [orb_waiting_time |-> 0, orb_n |-> 0,
                 noise |-> TRUE, order |-> TRUE]
    /\ df_test = <<>>
    /\ df_events = <<>>
    /\ df_filtered = <<>>
    /\ df_train = <<>>
    /\ bug_pool = <<>>
    /\ test_steps = <<>>
    /\ train_steps = <<>>
    /\ train_first = FALSE
    /\ current_test = 0
    /\ n_trained = 0
    /\ seen = <<>>

\* create_pipeline with config['orb']: a fresh model under a threshold under ORB
InitORB ==
    /\ RunNotStarted
    /\ orb_pc = "idle"
    /\ \E p \in NormalProportions : th = threshold_of(p)
    /\ \E model \in Models, threshold \in Thresholds, n \in 1..MaxIterations :
           clf = [model |-> model, threshold |-> threshold, n_iterations |-> n,
                  steps_fitted |-> FALSE, fitted |-> FALSE, trained |-> FALSE]
    /\ y = <<>>
    /\ window = 0
    /\ prediction = <<>>
    /\ ma = ma_initial
    /\ it = 0
    /\ obf = <<One, One>>
    /\ passes = 0
    /\ epochs = 0
    /\ warned = FALSE
    /\ exc = "none"
    /\ calls = 0
    /\ ma_before = ma_initial
    /\ clf_before = clf
    /\ MetricsNotStarted
    /\ TuningNotStarted

\* ORB.train is called with a batch and a moving-average window: df_ma is
\* popped, ma = .4, and range(self.classifier.n_iterations) is evaluated, which
\* is a bound method (TypeError) when the model is an Ensemble
OrbTrain ==
    /\ orb_pc = "idle"
    /\ calls < MaxCalls
    /\ \E column \in TargetColumns, w \in 0..MaxWindow :
        /\ y' = column
        /\ window' = w
        /\ IF predicts(clf) /\ w > 0
           THEN prediction' \in Binary(w)
           ELSE prediction' = [k \in 1..w |-> 0]
    /\ ma' = ma_initial
    /\ it' = 0
    /\ warned' = FALSE
    /\ passes' = 0
    /\ epochs' = 0
    /\ IF clf.model = "Ensemble"
       THEN orb_pc' = "raised" /\ exc' = "range"
       ELSE orb_pc' = "loop" /\ exc' = exc
    /\ UNCHANGED <<th, clf, obf, calls, ma_before, clf_before>>
    /\ UNCHANGED <<run_vars, met_vars, tun_vars>>

\* the head of an iteration: obf0 and obf1 from ma and th, the new kwargs;
\* no test of a denominator comes before the division
OrbWeights ==
    /\ orb_pc = "loop"
    /\ it < clf.n_iterations
    /\ ma_before' = ma
    /\ clf_before' = clf
    /\ warned' = FALSE
    /\ IF divides_by_zero(ma, th)
       THEN /\ orb_pc' = "raised"
            /\ exc' = "ZeroDivisionError"
            /\ obf' = obf
       ELSE /\ orb_pc' = "train"
            /\ exc' = exc
            /\ obf' = weights(ma, th)
    /\ UNCHANGED <<th, clf, y, window, prediction, ma, it, passes, epochs, calls>>
    /\ UNCHANGED <<run_vars, met_vars, tun_vars>>

\* self.classifier.train(df_train, **new_kwargs): Threshold.train hands it to
\* PyTorch.train or Scikit.train. A ValueError of _prepare_dataloaders is
\* logged and the call returns; otherwise PyTorch runs max_epochs epochs and
\* sets trained, Scikit runs the n_iterations = 1 of the kwargs and sets
\* trained when the sampler drew both classes
ClassifierTrain ==
    /\ orb_pc = "train"
    /\ LET prep == prepare_dataloaders(clf, y)
       IN IF prep.raised # "none"
          THEN /\ warned' = handles(prep.raised)
               /\ orb_pc' = IF handles(prep.raised) THEN "predict" ELSE "raised"
               /\ exc' = IF handles(prep.raised)
                         THEN exc ELSE "_prepare_dataloaders"
               /\ clf' = [clf EXCEPT !.steps_fitted = prep.steps_fitted]
               /\ passes' = 0
               /\ epochs' = epochs
               /\ prediction' = prediction
          ELSE /\ warned' = FALSE
               /\ orb_pc' = "predict"
               /\ exc' = exc
               /\ \E both \in BOOLEAN :
                    clf' = [clf EXCEPT
                        !.steps_fitted = prep.steps_fitted,
                        !.fitted = TRUE,
                        !.trained = IF clf.model = "PyTorch"
                                    THEN TRUE ELSE clf.trained \/ both]
               /\ passes' = IF clf.model = "PyTorch" THEN clf.n_iterations ELSE 1
               /\ epochs' = epochs +
                              IF clf.model = "PyTorch" THEN clf.n_iterations ELSE 1
               /\ prediction' \in Binary(window)
    /\ UNCHANGED <<th, y, window, ma, it, obf, calls, ma_before, clf_before>>
    /\ UNCHANGED <<run_vars, met_vars, tun_vars>>

\* df_output = self.classifier.predict(df_ma); ma = df_output['prediction'].mean()
\* RateFixedTrain.predict subscripts the df_proportion it was not given
\* (TypeError); a fitted model given no row raises ValueError
OrbPredict ==
    /\ orb_pc = "predict"
    /\ IF clf.threshold = "RateFixedTrain"
       THEN /\ orb_pc' = "raised"
            /\ exc' = "RateFixedTrain.predict"
            /\ UNCHANGED <<ma, it>>
       ELSE IF window = 0 /\ predicts(clf)
       THEN /\ orb_pc' = "raised"
            /\ exc' = "predict_proba"
            /\ UNCHANGED <<ma, it>>
       ELSE /\ ma' = mean(prediction)
            /\ it' = it + 1
            /\ orb_pc' = "loop"
            /\ exc' = exc
    /\ UNCHANGED <<th, clf, y, window, prediction, obf, passes, epochs, warned, calls,
                   ma_before, clf_before>>
    /\ UNCHANGED <<run_vars, met_vars, tun_vars>>

\* the loop of ORB.train is over
OrbReturn ==
    /\ orb_pc = "loop"
    /\ it >= clf.n_iterations
    /\ orb_pc' = "idle"
    /\ calls' = calls + 1
    /\ UNCHANGED <<th, clf, y, window, prediction, ma, it, obf, passes, epochs, warned,
                   exc, ma_before, clf_before>>
    /\ UNCHANGED <<run_vars, met_vars, tun_vars>>

NextORB ==
    \/ OrbTrain
    \/ OrbWeights
    \/ ClassifierTrain
    \/ OrbPredict
    \/ OrbReturn

SpecORB == InitORB /\ [][NextORB]_vars

\* ---------------------------------------------------------------- properties
Timestamp(j) == df_test[j].timestamp
TimestampEvent(i) == df_train[i].timestamp_event

\* the rows of df_train passed to model.train before commit j was predicted
TrainedBefore(j) == 1..seen[j]

\* the rows of df_train whose label is known when commit j arrives
KnownAt(j) == {i \in 1..Len(df_train) : TimestampEvent(i) <= Timestamp(j)}

\* the state right after the two calls of calculate_steps
StepsCalculated == pc = "loop" /\ current_test = 0

\* C1: the step counts returned by calculate_steps sum to the length of the
\* axis they bucket: sum(test_steps) = len(df_test) and sum(train_steps) =
\* len(df_train), no item lost at an edge, none counted twice.
C1_StepsSumToLength ==
    StepsCalculated =>
        /\ Sum(test_steps) = Len(df_test)
        /\ Sum(train_steps) = Len(df_train)

\* several steps on both axes, and ties of the two axes at the first and at
\* the last edge
C1_Witness ==
    /\ StepsCalculated
    /\ Len(test_steps) >= 2
    /\ Len(train_steps) >= 2
    /\ Timestamp(1) = TimestampEvent(1)
    /\ Timestamp(Len(df_test)) = TimestampEvent(Len(df_train))

\* C2 as claimed: when a commit is predicted, the events already passed to
\* model.train are exactly the events with timestamp_event <= its timestamp.
C2_TrainedExactlyKnown ==
    \A j \in 1..Len(seen) : TrainedBefore(j) = KnownAt(j)

\* the merged timeline begins with a train step and ends with a test step:
\* the two lists of steps are equally long and train_first is False
TrainOpensTestCloses ==
    /\ TimestampEvent(1) <= Timestamp(1)
    /\ TimestampEvent(Len(df_train)) <= Timestamp(Len(df_test))

\* C2 amended: when a commit is predicted, every event already passed to
\* model.train has timestamp_event <= its timestamp, and they are exactly
\* those events unless the train stream both begins no later than the first
\* commit and ends no later than the last commit.
C2_TrainedKnownUnlessDeferred ==
    \A j \in 1..Len(seen) :
        /\ TrainedBefore(j) \subseteq KnownAt(j)
        /\ ~TrainOpensTestCloses => TrainedBefore(j) = KnownAt(j)

\* a finished loop of several test steps with training in between, the
\* timeline not opening with a train step
C2_Witness ==
    /\ pc = "done"
    /\ ~TrainOpensTestCloses
    /\ Len(seen) >= 3
    /\ seen[1] = 0
    /\ seen[2] > 0
    /\ seen[Len(seen)] > seen[2]
    /\ \E j \in 1..Len(seen) : \E i \in KnownAt(j) : TimestampEvent(i) = Timestamp(j)

\* C3 as claimed: for every waiting_time, a commit is predicted before any
\* event derived from that commit is passed to model.train.
C3_TestThenTrain ==
    \A j \in 1..Len(seen) :
        \A i \in TrainedBefore(j) : df_train[i].src # df_test[j].id

\* the labels of commit j become known strictly after its arrival
LabelledLater(j) ==
    /\ config.orb_waiting_time >= 1
    /\ df_test[j].target = 1 => df_test[j].timestamp_fix > df_test[j].timestamp

\* C3 amended: for every waiting_time of at least one day, a commit whose fix
\* (if it is a bug) is later than its arrival is predicted before any event
\* derived from that commit is passed to model.train.
C3_TestThenTrainWhenLabelledLater ==
    \A j \in 1..Len(seen) :
        LabelledLater(j) =>
            \A i \in TrainedBefore(j) : df_train[i].src # df_test[j].id

\* a commit predicted after the events of an earlier commit were trained on,
\* its own events still ahead
C3_Witness ==
    /\ pc = "done"
    /\ \E j \in 1..Len(seen) :
        /\ LabelledLater(j)
        /\ seen[j] > 0
        /\ \E i \in seen[j] + 1..Len(df_train) : df_train[i].src = df_test[j].id

\* extract_events has run
Extracted == pc # "extract"

\* C4: every event produced by extract_events has timestamp_event >= the
\* arrival timestamp of the commit it derives from.
C4_EventNotBeforeCommit ==
    Extracted =>
        \A i \in 1..Len(df_events) :
            df_events[i].timestamp_event >= df_test[df_events[i].src].timestamp

\* a bug commit with its two events, one at the arrival timestamp itself
C4_Witness ==
    /\ Extracted
    /\ config.orb_waiting_time >= 1
    /\ \E i, k \in 1..Len(df_events) :
        /\ df_events[i].src = df_events[k].src
        /\ df_events[i].target = 1
        /\ df_events[k].target = 0
        /\ df_events[k].timestamp_event > df_test[df_events[k].src].timestamp
    /\ \E i \in 1..Len(df_events) :
        df_events[i].timestamp_event = df_test[df_events[i].src].timestamp

\* remove_noise has run on df_events
NoiseRemoved == pc \notin {"extract", "noise"} /\ ~config.noise

\* C5: remove_noise is idempotent: run on its own output with the same
\* threshold it removes nothing.
C5_RemoveNoiseIdempotent ==
    NoiseRemoved => remove_noise(df_filtered, config.orb_n) = df_filtered

\* a first pass that removed a bug event and kept another one
C5_Witness ==
    /\ NoiseRemoved
    /\ Len(df_filtered) < Len(df_events)
    /\ \E i \in 1..Len(df_filtered) : df_filtered[i].target = 1

\* balance_events has run on df_filtered
Balanced == pc \notin {"extract", "noise", "balance"} /\ ~config.order

\* a row without its timestamp_event
Unstamped(row) == [src |-> row.src, feat |-> row.feat, target |-> row.target]

BugEvents(df) == SelectSeq(df, LAMBDA row : row.target = 1)

\* C6: the output of balance_events holds every clean event of the input
\* once, each bug event of the input at most once, features and target
\* unchanged, and nothing else; the missing bug events are those left in the
\* queue, and they are the last bug events of the input.
C6_BalancePreservesEvents ==
    Balanced =>
        LET bugs == BugEvents(df_filtered)
            emitted == Len(bugs) - Len(bug_pool)
        IN /\ \A i \in 1..Len(df_filtered) :
                LET n == Cardinality({k \in 1..Len(df_train) :
                            Unstamped(df_train[k]) = Unstamped(df_filtered[i])})
                IN IF df_filtered[i].target = 0
                   THEN /\ n = 1
                        /\ \E k \in 1..Len(df_train) : df_train[k] = df_filtered[i]
                   ELSE n <= 1
           /\ \A k \in 1..Len(df_train) :
                \E i \in 1..Len(df_filtered) :
                    Unstamped(df_train[k]) = Unstamped(df_filtered[i])
           /\ emitted >= 0
           /\ bug_pool = SubSeq(bugs, emitted + 1, Len(bugs))
           /\ \A i \in 1..Len(bugs) :
                (\E k \in 1..Len(df_train) :
                    Unstamped(df_train[k]) = Unstamped(bugs[i])) <=> i <= emitted

\* two bug events queued, the first one emitted with a clean event, the
\* second one left in the queue
C6_Witness ==
    /\ Balanced
    /\ Len(bug_pool) >= 1
    /\ \E k \in 1..Len(df_train) : df_train[k].target = 1
    /\ \E i \in 1..Len(df_filtered) - 2 :
        /\ df_filtered[i].target = 1
        /\ df_filtered[i + 1].target = 1
        /\ df_filtered[i + 2].target = 0

\* a float of [0, 1]
InUnit(a) == ~IsNaN(a) /\ 0 <= a.num /\ a.num <= a.den

\* C7 as claimed: ma is a value in [0, 1] after every update, the window
\* df_ma being empty or not.
C7_MovingAverageInUnit == InUnit(ma)

\* C7 amended: ma is a value in [0, 1] after every update, for every sequence
\* of binary predictions returned on a moving-average window df_ma of at
\* least one row.
C7_MovingAverageInUnitOnRows == window > 0 => InUnit(ma)

\* an update from a window on which the predictions are mixed
C7_Witness ==
    /\ orb_pc = "loop"
    /\ it >= 1
    /\ window >= 2
    /\ ma = mean(prediction)
    /\ Gt(ma, Rat(0, 1))
    /\ Lt(ma, Rat(1, 1))

\* the first iteration of a call is about to train
FirstPass == orb_pc = "train" /\ it = 0

\* C8: ma is initialized to th: at the first inner iteration ma = th, and the
\* first training pass uses the weights obf0 = obf1 = 1, for every th.
C8_FirstPassUnbiased ==
    FirstPass => Eq(ma, th) /\ obf = <<One, One>>

\* classifier.train has returned to ORB.train from a batch without two classes
TrainSkipped == orb_pc = "predict" /\ Cardinality(unique(y)) # 2

SkippedIterationOver == warned /\ orb_pc \in {"loop", "idle"}

\* C10: after every inner iteration of ORB.train in which classifier.train
\* was skipped, ma has the value it had before that iteration.
C10_SkippedTrainLeavesMovingAverage ==
    SkippedIterationOver => ma = ma_before

\* an axis of the scheduler holds no item: no commit, or no train event
EmptyAxis ==
    /\ pc \notin {"extract", "noise", "balance"}
    /\ (Len(df_test) = 0 \/ Len(df_train) = 0)

\* C11: an empty scheduler axis is not an error: when the train event stream
\* or the test stream is empty, run performs zero iterations for it and
\* completes without raising.
C11_EmptyAxisCompletes ==
    EmptyAxis => pc # "raised"

\* a denominator of the bias curves is zero for the th of this ORB
ZeroDenominator == obf0_denominator_zero(th) \/ obf1_denominator_zero(th)

\* C12: the bias computation is guarded against division by zero: whenever a
\* bias-curve denominator (m - m^th, or m^th - 1) would be zero, ORB.train does
\* not raise and behaves as the "equal" branch, obf0 = obf1 = 1.
C12_ZeroDenominatorTrainsUnbiased ==
    /\ exc # "ZeroDivisionError"
    /\ (ZeroDenominator /\ orb_pc = "train") => obf = <<One, One>>

\* the division of a bias curve is never reached with a zero denominator
NoZeroDivision == exc # "ZeroDivisionError"

\* ---------------------------------------------------------------- SpecMetrics
\* prequential_recalls(results, fading_factor) on a prediction stream of up to
\* MaxRows rows
InitMetrics ==
    /\ RunNotStarted
    /\ OrbNotConstructed
    /\ TuningNotStarted
    /\ met_pc = "rows"
    /\ results = <<>>
    /\ counts = [c \in Classes |-> 0]
    /\ hits = [c \in Classes |-> 0]
    /\ scale = [c \in Classes |-> 1]
    /\ recalls = <<>>

\* the next row of the stream: the faded sums of the class of its target are
\* updated, those of the other class stay, and a row of recalls is written.
\* metrics.py is not among the sources: the update is the one under which
\* test_prequential_recalls passes (r0 = 1 / 1.9 at its third row)
MetricsRow ==
    /\ met_pc = "rows"
    /\ Len(results) < MaxRows
    /\ \E row \in Rows :
        LET label == row.target
            new_counts == [counts EXCEPT ![label] =
                              faded(occurrence(row, label), counts[label], scale[label])]
            new_hits == [hits EXCEPT ![label] =
                              faded(hit(row, label), hits[label], scale[label])]
        IN /\ results' = Append(results, row)
           /\ counts' = new_counts
           /\ hits' = new_hits
           /\ scale' = [scale EXCEPT ![label] = fading_factor.den * scale[label]]
           /\ recalls' = Append(recalls,
                  <<recall(new_hits[0], new_counts[0]),
                    recall(new_hits[1], new_counts[1])>>)
    /\ UNCHANGED met_pc
    /\ UNCHANGED <<run_vars, orb_vars, tun_vars>>

\* the stream is over: the frame with r0 and r1 is returned
MetricsReturn ==
    /\ met_pc = "rows"
    /\ met_pc' = "done"
    /\ UNCHANGED <<results, counts, hits, scale, recalls>>
    /\ UNCHANGED <<run_vars, orb_vars, tun_vars>>

NextMetrics ==
    \/ MetricsRow
    \/ MetricsReturn

SpecMetrics == InitMetrics /\ [][NextMetrics]_vars

\* ---------------------------------------------------------------- SpecTuning
\* create_models_configs(config) for any --start and --end in Indices
InitTuning ==
    /\ RunNotStarted
    /\ OrbNotConstructed
    /\ MetricsNotStarted
    /\ tun_pc = "models"
    /\ args \in [start : Indices, end : Indices]
    /\ models_configs = <<>>

\* the next entry of the dict literal: the configurations of one model
ModelConfigs ==
    /\ tun_pc = "models"
    /\ Cardinality(DOMAIN models_configs) < Len(ConfigSpaces)
    /\ LET model == ConfigSpaces[Cardinality(DOMAIN models_configs) + 1]
       IN  models_configs' = models_configs @@
               (model :> config_space_to_configs(model, args.start, args.end))
    /\ UNCHANGED <<tun_pc, args>>
    /\ UNCHANGED <<run_vars, orb_vars, met_vars>>

\* return models_configs
CreateModelsConfigsReturn ==
    /\ tun_pc = "models"
    /\ Cardinality(DOMAIN models_configs) = Len(ConfigSpaces)
    /\ tun_pc' = "returned"
    /\ UNCHANGED <<args, models_configs>>
    /\ UNCHANGED <<run_vars, orb_vars, met_vars>>

NextTuning ==
    \/ ModelConfigs
    \/ CreateModelsConfigsReturn

SpecTuning == InitTuning /\ [][NextTuning]_vars

\* the stream read so far is the head of the frame of test_prequential_recalls
TestFrameRead ==
    /\ Len(results) <= Len(test_results)
    /\ results = SubSeq(test_results, 1, Len(results))

\* the recursion of the claim, applied at every row i of rs to the sums of
\* class c: weighted_hits(i) and weighted_total(i) over a common denominator
every_row_sums(rs, c, i) ==
    LET F[k \in 0..i] ==
            IF k = 0 THEN [hits |-> 0, total |-> 0, den |-> 1]
            ELSE [hits |-> faded(hit(rs[k], c), F[k - 1].hits, F[k - 1].den),
                  total |-> faded(occurrence(rs[k], c), F[k - 1].total, F[k - 1].den),
                  den |-> fading_factor.den * F[k - 1].den]
    IN F[i]

every_row_recall(rs, c, i) ==
    recall(every_row_sums(rs, c, i).hits, every_row_sums(rs, c, i).total)

\* C13 as claimed: with weighted_hits and weighted_total faded at every row,
\* recall = weighted_hits / weighted_total yields on the frame of
\* test_prequential_recalls r0 = [0, 0, .5263, .7011, .7011, .7011] and
\* r1 = [0, 0, 0, 0, .5263, .7011].
C13_EveryRowRecursionYieldsExpected ==
    TestFrameRead =>
        \A i \in 1..Len(results) :
            /\ almost_equal(every_row_recall(results, 0, i), expected_r0[i])
            /\ almost_equal(every_row_recall(results, 1, i), expected_r1[i])

\* C13 amended: recall of class c is weighted_hits / weighted_total (0 when
\* the denominator is 0), the two sums of class c being faded and incremented
\* at the rows whose target is c only, so that a row of the other class
\* leaves the recall of c as it was; on the frame of test_prequential_recalls
\* this yields the r0 and r1 the test expects.
C13_RecallsFadedPerClass ==
    /\ \A i \in 2..Len(results) : \A c \in Classes :
          results[i].target # c => recalls[i][c + 1] = recalls[i - 1][c + 1]
    /\ TestFrameRead =>
          \A i \in 1..Len(results) :
              /\ almost_equal(recalls[i][1], expected_r0[i])
              /\ almost_equal(recalls[i][2], expected_r1[i])

\* the whole frame of the test has been read and measured
C13_Witness ==
    /\ met_pc = "done"
    /\ results = test_results
    /\ Len(recalls) = Len(test_results)

\* item x lies after edge b
lies_after(x, b, right) == IF right THEN x > b ELSE x >= b

\* a bin timestamp separates item i of data from item i + 1
separated(data, i, bins, right) ==
    \E k \in 1..Len(bins) :
        lies_after(data[i + 1], bins[k], right) /\ ~lies_after(data[i], bins[k], right)

\* the lengths of the maximal runs of consecutive items of data that no bin
\* timestamp separates, in timeline order
run_lengths(data, bins, right) ==
    LET F[i \in 1..Len(data)] ==
            IF i = 1 THEN <<1>>
            ELSE LET runs == F[i - 1]
                 IN IF separated(data, i - 1, bins, right)
                    THEN Append(runs, 1)
                    ELSE [runs EXCEPT ![Len(runs)] = @ + 1]
    IN F[Len(data)]

\* the merged timeline of the commits and the events: by time, an event
\* before a commit of the same time, each stream in its own order
timeline ==
    LET events == [i \in 1..Len(df_train) |->
                      [kind |-> "train", at |-> 2 * TimestampEvent(i)]]
        commits == [j \in 1..Len(df_test) |->
                      [kind |-> "test", at |-> 2 * Timestamp(j) + 1]]
    IN sort_values(events \o commits, "at")

\* the lengths of the maximal runs of rows of one kind in a timeline
kind_runs(line, kind) ==
    LET F[i \in 0..Len(line)] ==
            IF i = 0 THEN <<>>
            ELSE IF line[i].kind # kind THEN F[i - 1]
            ELSE IF i > 1 /\ line[i - 1].kind = kind
            THEN [F[i - 1] EXCEPT ![Len(F[i - 1])] = @ + 1]
            ELSE Append(F[i - 1], 1)
    IN F[Len(line)]

\* C14: for non-decreasing data and bins, calculate_steps returns, in
\* timeline order, exactly the lengths of the maximal runs of consecutive
\* items that no bin timestamp separates (x after b iff x >= b when right is
\* False, iff x > b when right is True), every count > 0; test_steps and
\* train_steps are the run lengths of the merged timeline in which an event
\* of the same time as a commit precedes it.
C14_StepsAreRunLengths ==
    StepsCalculated =>
        /\ test_steps = run_lengths(Column(df_test, "timestamp"),
                                    Column(df_train, "timestamp_event"), FALSE)
        /\ train_steps = run_lengths(Column(df_train, "timestamp_event"),
                                     Column(df_test, "timestamp"), TRUE)
        /\ \A k \in 1..Len(test_steps) : test_steps[k] > 0
        /\ \A k \in 1..Len(train_steps) : train_steps[k] > 0
        /\ test_steps = kind_runs(timeline, "test")
        /\ train_steps = kind_runs(timeline, "train")

\* runs of several items on both axes, an event at the time of a commit in
\* the middle of the timeline, and two bin timestamps that are equal
C14_Witness ==
    /\ StepsCalculated
    /\ Len(test_steps) >= 2
    /\ Len(train_steps) >= 2
    /\ \E k \in 1..Len(test_steps) : test_steps[k] >= 2
    /\ \E k \in 1..Len(train_steps) : train_steps[k] >= 2
    /\ \E i \in 2..Len(df_train) : \E j \in 2..Len(df_test) :
          TimestampEvent(i) = Timestamp(j)

\* the <<timestamp_event, target>> of the events extract_events is to emit
\* for a commit
events_due(commit, verification_latency) ==
    IF commit.target = 0
    THEN {<<commit.timestamp + verification_latency, 0>>}
    ELSE {<<commit.timestamp_fix, 1>>} \cup
         IF commit.timestamp_fix - commit.timestamp >= verification_latency
         THEN {<<commit.timestamp + verification_latency, 0>>}
         ELSE {}

\* the positions in df_events of the events derived from commit j
EventsOf(j) == {i \in 1..Len(df_events) : df_events[i].src = df_test[j].id}

\* C15: with verification_latency = waiting_time * 86400, extract_events
\* emits exactly: for each target=0 commit one target=0 event at timestamp +
\* verification_latency; for each target=1 commit one target=1 event at
\* timestamp_fix and, if and only if timestamp_fix - timestamp >=
\* verification_latency, one more target=0 event at timestamp +
\* verification_latency; and no other event.
C15_ExtractedEventsAreDue ==
    Extracted =>
        LET verification_latency == config.orb_waiting_time * 86400
        IN /\ \A j \in 1..Len(df_test) :
                LET due == events_due(df_test[j], verification_latency)
                IN /\ {<<df_events[i].timestamp_event, df_events[i].target>> :
                          i \in EventsOf(j)} = due
                   /\ Cardinality(EventsOf(j)) = Cardinality(due)
                   /\ \A i \in EventsOf(j) : df_events[i].feat = df_test[j].feat
           /\ \A i \in 1..Len(df_events) :
                \E j \in 1..Len(df_test) : i \in EventsOf(j)

\* a latency of a day, a bug commit fixed exactly a day later with its two
\* events and a bug commit fixed sooner with its bug event only
C15_Witness ==
    /\ Extracted
    /\ config.orb_waiting_time = 1
    /\ \E j, k \in 1..Len(df_test) :
        /\ df_test[j].target = 1
        /\ df_test[j].timestamp_fix - df_test[j].timestamp = 86400
        /\ Cardinality(EventsOf(j)) = 2
        /\ df_test[k].target = 1
        /\ df_test[k].timestamp_fix - df_test[k].timestamp < 86400
        /\ Cardinality(EventsOf(k)) = 1

\* the frame of the concatenation an event comes from: 0 the clean commits,
\* 1 the bug events, 2 the clean events of the bug commits
Frame(event) ==
    IF df_test[event.src].target = 0 THEN 0
    ELSE IF event.target = 1 THEN 1 ELSE 2

\* C16 as claimed: the output of extract_events is sorted by non-decreasing
\* timestamp_event, and of two events with the same timestamp_event the one
\* from the earlier commit of the input stream comes first.
C16_TiesInCommitOrder ==
    Extracted =>
        \A i, k \in 1..Len(df_events) :
            i < k =>
                /\ df_events[i].timestamp_event <= df_events[k].timestamp_event
                /\ df_events[i].timestamp_event = df_events[k].timestamp_event
                       => df_events[i].src <= df_events[k].src

\* C16 amended: the output of extract_events is sorted by non-decreasing
\* timestamp_event, and events with the same timestamp_event appear in the
\* order of the concatenation that was sorted: the events of the clean
\* commits, then the bug events, then the clean events of the bug commits,
\* each of the three in the order of the commits.
C16_TiesInConcatenationOrder ==
    Extracted =>
        \A i, k \in 1..Len(df_events) :
            i < k =>
                /\ df_events[i].timestamp_event <= df_events[k].timestamp_event
                /\ df_events[i].timestamp_event = df_events[k].timestamp_event
                       => \/ Frame(df_events[i]) < Frame(df_events[k])
                          \/ /\ Frame(df_events[i]) = Frame(df_events[k])
                             /\ df_events[i].src < df_events[k].src

\* two events of the same time with the event of the later commit first, and
\* two events of the same time and the same frame
C16_Witness ==
    /\ Extracted
    /\ \E i, k \in 1..Len(df_events) :
        /\ i < k
        /\ df_events[i].timestamp_event = df_events[k].timestamp_event
        /\ df_events[i].src > df_events[k].src
    /\ \E i, k \in 1..Len(df_events) :
        /\ i < k
        /\ df_events[i].timestamp_event = df_events[k].timestamp_event
        /\ Frame(df_events[i]) = Frame(df_events[k])

\* cumulative_count(i): the events of the feature group of row i up to and
\* including row i
cumulative_count(df, i) ==
    Cardinality({j \in 1..i : df[j].feat = df[i].feat})

\* cumulative_clean(i): the target=0 events among them
cumulative_clean(df, i) ==
    Cardinality({j \in 1..i : df[j].feat = df[i].feat /\ df[j].target = 0})

\* the target=0 events of the feature group of row i that precede row i
prior_clean(df, i) ==
    Cardinality({j \in 1..i - 1 : df[j].feat = df[i].feat /\ df[j].target = 0})

\* the rows of df at the positions that are not in dropped, in order
Without(df, dropped) ==
    LET F[i \in 0..Len(df)] ==
            IF i = 0 THEN <<>>
            ELSE IF i \in dropped THEN F[i - 1] ELSE Append(F[i - 1], df[i])
    IN F[Len(df)]

\* C17 as claimed: remove_noise drops row i exactly when row i has target=1
\* and cumulative_count(i) - cumulative_clean(i) >= n, both counted in the
\* feature group of row i up to and including row i; every other row is kept.
C17_DropsByCountMinusClean ==
    NoiseRemoved =>
        df_filtered = Without(df_events,
            {i \in 1..Len(df_events) :
                /\ df_events[i].target = 1
                /\ cumulative_count(df_events, i) - cumulative_clean(df_events, i)
                       >= config.orb_n})

\* C17 amended: remove_noise drops row i exactly when row i has target=1 and
\* (the number of events of its feature group before row i) - (the number of
\* target=1 events of the group up to and including row i) >= n, that is
\* when at least n + 1 target=0 events of the group precede row i; every
\* other row is kept, in order.
C17_DropsAfterMoreThanNClean ==
    NoiseRemoved =>
        df_filtered = Without(df_events,
            {i \in 1..Len(df_events) :
                /\ df_events[i].target = 1
                /\ prior_clean(df_events, i) >= config.orb_n + 1})

\* n >= 1, a bug event kept after exactly n clean events of its group and a
\* bug event dropped
C17_Witness ==
    /\ NoiseRemoved
    /\ config.orb_n >= 1
    /\ Len(df_filtered) < Len(df_events)
    /\ \E i \in 1..Len(df_events) :
        /\ df_events[i].target = 1
        /\ prior_clean(df_events, i) = config.orb_n
        /\ \E k \in 1..Len(df_filtered) : df_filtered[k] = df_events[i]

\* C18: the noise filter is activated by n clean observations: remove_noise
\* drops a target=1 event if and only if at least n target=0 events with the
\* same feature vector precede it in the event stream.
C18_DropsAfterNClean ==
    NoiseRemoved =>
        df_filtered = Without(df_events,
            {i \in 1..Len(df_events) :
                /\ df_events[i].target = 1
                /\ prior_clean(df_events, i) >= config.orb_n})

\* the commits of the bug events of a stream, in the order of the stream
BugSources(df) == Column(BugEvents(df), "src")

\* C19: in the output of balance_events every bug event immediately follows a
\* clean event and carries that clean event's timestamp_event; at most one
\* bug event follows each clean event; and the bug events are emitted in FIFO
\* order, the relative order they have in the input.
C19_BugFollowsCleanInFifoOrder ==
    Balanced =>
        /\ \A k \in 1..Len(df_train) :
              df_train[k].target = 1 =>
                  /\ k > 1
                  /\ df_train[k - 1].target = 0
                  /\ df_train[k].timestamp_event = df_train[k - 1].timestamp_event
        /\ \A k \in 1..Len(df_train) - 2 :
              ~(df_train[k].target = 0 /\ df_train[k + 1].target = 1
                  /\ df_train[k + 2].target = 1)
        /\ Len(BugSources(df_train)) <= Len(BugSources(df_filtered))
        /\ BugSources(df_train) =
              SubSeq(BugSources(df_filtered), 1, Len(BugSources(df_train)))

\* two bug events queued before the first clean event, both emitted
C19_Witness ==
    /\ Balanced
    /\ Len(df_filtered) >= 3
    /\ df_filtered[1].target = 1
    /\ df_filtered[2].target = 1
    /\ Len(BugSources(df_train)) = 2

\* the row of the input of balance_events that an emitted bug event was
\* read from
OriginalOf(bug) ==
    CHOOSE i \in 1..Len(df_filtered) : Unstamped(df_filtered[i]) = Unstamped(bug)

\* C20: balance_events only moves the timestamp of a bug event later: for
\* every input ordered by non-decreasing timestamp_event, as extract_events
\* and remove_noise produce it, the timestamp_event of each emitted bug event
\* is >= its original timestamp_event.
C20_BugEventsMoveLater ==
    Balanced =>
        \A k \in 1..Len(df_train) :
            df_train[k].target = 1 =>
                df_train[k].timestamp_event
                    >= df_filtered[OriginalOf(df_train[k])].timestamp_event

\* a bug event emitted later than it was reported, a second bug event left
\* behind it in the queue
C20_Witness ==
    /\ Balanced
    /\ NonDecreasing(Column(df_filtered, "timestamp_event"))
    /\ Len(bug_pool) >= 1
    /\ \E k \in 1..Len(df_train) :
        /\ df_train[k].target = 1
        /\ df_train[k].timestamp_event
              > df_filtered[OriginalOf(df_train[k])].timestamp_event

\* classifier.train has returned to ORB.train from a batch of two classes
Trained == orb_pc = "predict" /\ Cardinality(unique(y)) = 2

\* a call of ORB.train on a batch of two classes has returned
TrainReturned == orb_pc = "idle" /\ calls > 0 /\ Cardinality(unique(y)) = 2

\* C21: each of the n_iterations outer iterations of ORB.train trains the
\* wrapped model for exactly one inner iteration (one epoch / update pass),
\* for every wrapped model type (PyTorch, NaiveBayes, RandomForest,
\* LogisticRegression); one call of ORB.train therefore performs n_iterations
\* inner training iterations in total.
C21_OneInnerIterationPerOuter ==
    /\ Trained => passes = 1
    /\ TrainReturned => epochs = clf.n_iterations

\* the weights of the iteration have been computed from ma and th
Weighted == orb_pc = "train"

\* ((m^ma - m^th) * l0) / (m - m^th) + 1
ObfClean(a, t) == [curve |-> "obf0", m |-> m, l |-> l0, ma |-> a, th |-> t]

\* ((m^(th - ma) - 1) * l1) / (m^th - 1) + 1
ObfBug(a, t) == [curve |-> "obf1", m |-> m, l |-> l1, ma |-> a, th |-> t]

\* C22: the bias factors are piecewise in the moving average: if ma > th
\* only the clean class is biased (obf1 = 1, obf0 its curve), if ma < th only
\* the bug class is biased (obf0 = 1, obf1 its curve), if ma = th both are
\* 1; in every iteration at most one of obf0, obf1 differs from 1.
C22_BiasIsPiecewise ==
    /\ Weighted =>
          /\ Gt(ma, th) => obf = <<ObfClean(ma, th), One>>
          /\ Lt(ma, th) => obf = <<One, ObfBug(ma, th)>>
          /\ Eq(ma, th) => obf = <<One, One>>
    /\ obf[1] = One \/ obf[2] = One

\* a later iteration whose moving average, a mean of predictions, overshoots
\* th: the clean class is biased
C22_Witness ==
    /\ Weighted
    /\ it >= 1
    /\ Gt(ma, th)
    /\ obf[1] # One
    /\ obf[2] = One

\* ---------------------------------------------------------------------
\* C23: for 0 <= start <= end every configuration list create_models_configs
\* has built holds exactly end - start configurations, those at indices
\* start .. end-1 of the seeded sequence of its configuration space.
SeededSlice(config_space, start, end) ==
    [i \in 1..(end - start) |-> sample(config_space, start + i - 1)]

C23_ReturnsSeededSlice ==
    \A model \in DOMAIN models_configs :
        args.start <= args.end =>
            /\ Len(models_configs[model]) = args.end - args.start
            /\ models_configs[model] = SeededSlice(model, args.start, args.end)

\* ---------------------------------------------------------------------
\* C24: no label leaks from the future: whichever value train_first takes,
\* every event passed to model.train before a commit is predicted has a
\* timestamp_event no later than the timestamp of that commit.
C24_NoLabelFromTheFuture ==
    \A j \in 1..Len(seen) :
        \A i \in 1..Len(df_train) :
            i <= seen[j] => TimestampEvent(i) <= Timestamp(j)

\* a finished loop that trained before its first prediction (train_first was
\* True from the start), in which a commit was predicted right after an event
\* of its own timestamp was trained while a later event was still held back
C24_Witness ==
    /\ pc = "done"
    /\ seen # <<>>
    /\ seen[1] > 0
    /\ \E j \in 1..Len(seen) :
           /\ seen[j] > 0
           /\ seen[j] < Len(df_train)
           /\ TimestampEvent(seen[j]) = Timestamp(j)
           /\ TimestampEvent(seen[j] + 1) > Timestamp(j)

\* ---------------------------------------------------------------------
\* the two timestamp sequences are non-empty
NonEmptyAxes == Len(df_test) > 0 /\ Len(df_train) > 0

\* the iteration about to run pops a train step
PopsTrainStep == pc = "loop" /\ test_steps # <<>> /\ train_first

\* C25: for non-empty non-decreasing timestamp sequences the numbers of test
\* steps and of train steps differ by at most one, and the loop never pops
\* from an empty train_steps (no IndexError), whichever value train_first
\* takes.
C25_StepCountsDifferByAtMostOne ==
    NonEmptyAxes =>
        /\ StepsCalculated =>
              /\ Len(test_steps) - Len(train_steps) <= 1
              /\ Len(train_steps) - Len(test_steps) <= 1
        /\ PopsTrainStep => train_steps # <<>>
        /\ pc # "raised"

\* a loop about to pop the last train step it needs: train_first was False at
\* first (as many train steps as test steps), earlier train steps were popped
C25_Witness ==
    /\ NonEmptyAxes
    /\ PopsTrainStep
    /\ Len(test_steps) = 1
    /\ Len(train_steps) = 1
    /\ seen[1] = 0
    /\ n_trained > 0

\* ---------------------------------------------------------------------
\* row i of df_events is a row of df_filtered
Kept(i) == \E k \in 1..Len(df_filtered) : df_filtered[k] = df_events[i]

\* rows i and j of df_events are bug events of one feature group
BugsOfOneGroup(i, j) ==
    /\ df_events[i].target = 1
    /\ df_events[j].target = 1
    /\ df_events[i].feat = df_events[j].feat

\* C26: the counts of the noise filter are cumulative over the whole feature
\* group and are not reset at a bug event: remove_noise never removes a
\* target=0 event, and once it drops a target=1 event of a feature group it
\* drops every later target=1 event of that group.
C26_NoiseCountsNeverReset ==
    NoiseRemoved =>
        /\ \A i \in 1..Len(df_events) : df_events[i].target = 0 => Kept(i)
        /\ \A i, j \in 1..Len(df_events) :
               (i < j /\ BugsOfOneGroup(i, j) /\ ~Kept(i)) => ~Kept(j)

\* a bug event dropped, and a later bug event of its group dropped with no
\* clean event of the group in between, the clean events of the group kept
C26_Witness ==
    /\ NoiseRemoved
    /\ \E i, j \in 1..Len(df_events) :
           /\ i < j
           /\ BugsOfOneGroup(i, j)
           /\ ~Kept(i)
           /\ ~Kept(j)
           /\ prior_clean(df_events, j) = prior_clean(df_events, i)
           /\ \E c \in 1..i - 1 :
                  /\ df_events[c].target = 0
                  /\ df_events[c].feat = df_events[i].feat
                  /\ Kept(c)

\* ---------------------------------------------------------------------
\* the first n rows of df
Prefix(df, n) == SubSeq(df, 1, n)

CleanEvents(df) == SelectSeq(df, LAMBDA row : row.target = 0)

\* C27: balance_events preserves the ordering the scheduler relies on: from an
\* input ordered by non-decreasing timestamp_event its output, with the
\* reassigned timestamps of the bug events, is ordered by non-decreasing
\* timestamp_event, and every prefix of the output holds at most as many bug
\* events as clean events.
C27_BalancedStaysOrdered ==
    Balanced =>
        /\ NonDecreasing(Column(df_filtered, "timestamp_event"))
               => NonDecreasing(Column(df_train, "timestamp_event"))
        /\ \A n \in 0..Len(df_train) :
               Len(BugEvents(Prefix(df_train, n)))
                   <= Len(CleanEvents(Prefix(df_train, n)))

\* an ordered input of which two clean events are emitted and, after the
\* second, a bug event with a timestamp_event later than its own
C27_Witness ==
    /\ Balanced
    /\ NonDecreasing(Column(df_filtered, "timestamp_event"))
    /\ Len(CleanEvents(df_train)) = 2
    /\ \E k \in 3..Len(df_train) :
        /\ df_train[k].target = 1
        /\ df_train[k].timestamp_event
              > df_filtered[OriginalOf(df_train[k])].timestamp_event

====
